---- MODULE Spec2Model ----
(***************************************************************************)
(* A state-machine model of GeomApp/Box/BoxApp.cpp: the DX12 render        *)
(* adapter, the polled InputManager snapshot, the Gameplay/Menu game       *)
(* states and the BoxApp application shell driven by WinMain.              *)
(*                                                                         *)
(* Arithmetic.  The program computes in 32-bit floats.  The model computes *)
(* in exact rationals <<n, d>> (d > 0, lowest terms), so every statement   *)
(* about a float value is a statement "within floating-point tolerance".   *)
(***************************************************************************)
EXTENDS Integers, Sequences, FiniteSets, TLC

VARIABLES
    pc,               \* position of WinMain: "main", "constructed", "running", "frame", "failed", "exited"
    client,           \* D3DApp::mClientWidth, mClientHeight: <<w, h>>
    mRenderAdapter,   \* BoxApp::mRenderAdapter: Null or the DX12RenderAdapter's fields
    mCurrentState,    \* BoxApp::mCurrentState: Null or the GameState object
    mView,            \* BoxApp::mView
    mProj,            \* BoxApp::mProj
    input,            \* the InputManager singleton
    released,         \* per adapter resource: how many times it has been released
    initFail,         \* the creation step that failed during start-up ("none": nothing failed)
    adapterInit,      \* how DX12RenderAdapter::Initialize ended: "none", "true", "false", "threw"
    appInit,          \* how BoxApp::Initialize ended: "none", "true", "false", "threw"
    lastOp,           \* the operation that ran last
    lastArg,          \* the arguments of the operation that ran last
    frames,           \* number of BoxApp::Update calls so far
    draws,            \* number of DrawTriangle calls so far
    cleanups,         \* number of DX12RenderAdapter::Cleanup calls so far
    polled,           \* the keys and buttons that were down at the most recent poll
    onlyW             \* every Update so far saw exactly the W key held, at 1/60 s

vars == <<pc, client, mRenderAdapter, mCurrentState, mView, mProj, input, released,
          initFail, adapterInit, appInit, lastOp, lastArg, frames, draws, cleanups, polled,
          onlyW>>

\* a null pointer; a pointer to object x is <<x>>
Null == <<>>
Ptr(x) == <<x>>
Deref(p) == p[1]

\* ------------------------------------------------------------------ bounds
MaxFrames == 2
MaxScenarioTicks == 60
MaxAdapterCalls == 4

\* --------------------------------------------------------- program constants
KeySlots == 256
VK_LBUTTON == 1
VK_RBUTTON == 2
VK_LEFT == 37
VK_UP == 38
VK_RIGHT == 39
VK_DOWN == 40
KeyA == 65
KeyD == 68
KeyS == 83
KeyW == 87
moveSpeed == 200
TriangleSize == 200
GameplayProjWidth == 800
GameplayProjHeight == 600

\* ------------------------------------------------------------ rationals
Abs(n) == IF n < 0 THEN -n ELSE n

RECURSIVE GCD(_, _)
GCD(a, b) == IF b = 0 THEN a ELSE GCD(b, a % b)

Rat(n, d) ==
    IF n = 0 THEN <<0, 1>>
    ELSE LET g == GCD(Abs(n), Abs(d))
             s == IF d < 0 THEN -1 ELSE 1
         IN  <<(s * n) \div g, (s * d) \div g>>

RInt(n) == <<n, 1>>
RAdd(a, b) == IF a[1] = 0 THEN b ELSE IF b[1] = 0 THEN a
              ELSE Rat(a[1] * b[2] + b[1] * a[2], a[2] * b[2])
RNeg(a) == <<-a[1], a[2]>>
RSub(a, b) == RAdd(a, RNeg(b))
RMul(a, b) == IF a[1] = 0 \/ b[1] = 0 THEN <<0, 1>>
              ELSE IF a = <<1, 1>> THEN b ELSE IF b = <<1, 1>> THEN a
              ELSE Rat(a[1] * b[1], a[2] * b[2])
RInv(a) == Rat(a[2], a[1])
RLeq(a, b) == a[1] * b[2] <= b[1] * a[2]

\* ------------------------------------------------------------- matrices
\* A 4 x 4 matrix is a tuple of four rows, each a tuple of four rationals:
\* the entry in row i, column j (i, j in 0..3) of M is At(M, i, j).
Idx == 0..3
At(M, i, j) == M[i + 1][j + 1]

Mat(r0, r1, r2, r3) == <<r0, r1, r2, r3>>

Zero == RInt(0)
One == RInt(1)

XMMatrixIdentity ==
    Mat(<<One, Zero, Zero, Zero>>, <<Zero, One, Zero, Zero>>,
        <<Zero, Zero, One, Zero>>, <<Zero, Zero, Zero, One>>)

\* entry (i, j) of the product A * B
Dot(A, B, i, j) ==
    RAdd(RAdd(RMul(At(A, i, 0), At(B, 0, j)), RMul(At(A, i, 1), At(B, 1, j))),
         RAdd(RMul(At(A, i, 2), At(B, 2, j)), RMul(At(A, i, 3), At(B, 3, j))))

MulRow(A, B, i) == <<Dot(A, B, i, 0), Dot(A, B, i, 1), Dot(A, B, i, 2), Dot(A, B, i, 3)>>

XMMatrixMultiply(A, B) == Mat(MulRow(A, B, 0), MulRow(A, B, 1), MulRow(A, B, 2), MulRow(A, B, 3))

\* mutant: the matrix is stored as it comes
XMMatrixTranspose_Omitted(M) == M

TransposeRow(M, i) == <<At(M, 0, i), At(M, 1, i), At(M, 2, i), At(M, 3, i)>>

XMMatrixTranspose(M) ==
    Mat(TransposeRow(M, 0), TransposeRow(M, 1), TransposeRow(M, 2), TransposeRow(M, 3))

XMMatrixTranslation(x, y, z) ==
    Mat(<<One, Zero, Zero, Zero>>, <<Zero, One, Zero, Zero>>,
        <<Zero, Zero, One, Zero>>, <<x, y, z, One>>)

XMMatrixScaling(sx, sy, sz) ==
    Mat(<<sx, Zero, Zero, Zero>>, <<Zero, sy, Zero, Zero>>,
        <<Zero, Zero, sz, Zero>>, <<Zero, Zero, Zero, One>>)

\* sine and cosine of an angle a (a rational, in radians), by their Taylor
\* polynomials of degree two: the angles of the model stay below 0.1 rad.
SinOf(a) == a
CosOf(a) == RSub(One, RMul(Rat(1, 2), RMul(a, a)))

XMMatrixRotationZ(a) ==
    Mat(<<CosOf(a), SinOf(a), Zero, Zero>>, <<RNeg(SinOf(a)), CosOf(a), Zero, Zero>>,
        <<Zero, Zero, One, Zero>>, <<Zero, Zero, Zero, One>>)

XMMatrixOrthographicOffCenterLH(l, r, b, t, zn, zf) ==
    LET rw == RInv(RSub(r, l))
        rh == RInv(RSub(t, b))
        range == RInv(RSub(zf, zn))
    IN  Mat(<<RAdd(rw, rw), Zero, Zero, Zero>>,
            <<Zero, RAdd(rh, rh), Zero, Zero>>,
            <<Zero, Zero, range, Zero>>,
            <<RNeg(RMul(RAdd(l, r), rw)), RNeg(RMul(RAdd(t, b), rh)),
              RNeg(RMul(range, zn)), One>>)

\* ------------------------------------------------------ DX12RenderAdapter
Unwritten == <<"unwritten">>
Created == <<"created">>

\* the adapter-owned resources (ComPtr and unique_ptr members)
Resources == {"mCbvHeap", "mObjectCB", "mRootSignature", "mTriangleGeo",
              "mvsByteCode", "mpsByteCode", "mPSO"}

\* the creation steps of DX12RenderAdapter::Initialize that can fail
AdapterFailures == {"heap", "rootSigSerialize", "rootSig", "vertexBlob", "indexBlob", "pso"}

\* DX12RenderAdapter::DX12RenderAdapter: every owned pointer null, 0 x 0
AdapterNew ==
    [mClientWidth |-> 0, mClientHeight |-> 0,
     mCbvHeap |-> Null, mObjectCB |-> Null, mRootSignature |-> Null,
     mTriangleGeo |-> Null, mvsByteCode |-> Null, mpsByteCode |-> Null,
     mInputLayout |-> <<>>, mPSO |-> Null]

\* ThrowIfFailed(hr): whether the step throws DxException
ThrowIfFailed(fail, step) == fail = step

\* how DX12RenderAdapter::Initialize ended, and the adapter it leaves
Ended(a, result) == [adapter |-> a, result |-> result]

\* BuildPSO, the last step of Initialize
BuildPSO(a, fail) ==
    IF ThrowIfFailed(fail, "pso")
    THEN Ended(a, "threw")
    ELSE Ended([a EXCEPT !.mPSO = Created], "true")

\* the three vertex positions (x, y) computed by BuildTriangleGeometry
TriangleCenter(a) == <<RMul(RInt(a.mClientWidth), Rat(1, 2)),
                       RMul(RInt(a.mClientHeight), Rat(1, 2))>>
TriangleHalf == RMul(RInt(TriangleSize), Rat(1, 2))
TriangleVertices(a) ==
    << <<TriangleCenter(a)[1], RSub(TriangleCenter(a)[2], TriangleHalf)>>,
       <<RSub(TriangleCenter(a)[1], TriangleHalf), RAdd(TriangleCenter(a)[2], TriangleHalf)>>,
       <<RAdd(TriangleCenter(a)[1], TriangleHalf), RAdd(TriangleCenter(a)[2], TriangleHalf)>> >>
TriangleIndices == <<0, 1, 2>>

\* *mTriangleGeo after `stage` of BuildTriangleGeometry's steps: 0 the
\* MeshGeometry is made, 1 the vertex blob is filled, 2 the index blob is
\* filled, 3 the GPU buffers and the submesh are set
TriangleGeo(a, stage) ==
    [Name |-> "triangleGeo",
     VertexBufferCPU |-> IF stage >= 1 THEN TriangleVertices(a) ELSE Null,
     IndexBufferCPU |-> IF stage >= 2 THEN TriangleIndices ELSE Null,
     VertexBufferGPU |-> IF stage >= 3 THEN TriangleVertices(a) ELSE Null,
     IndexBufferGPU |-> IF stage >= 3 THEN TriangleIndices ELSE Null,
     DrawArgs |-> IF stage >= 3
                  THEN Ptr([IndexCount |-> Len(TriangleIndices), StartIndexLocation |-> 0,
                            BaseVertexLocation |-> 0])
                  ELSE Null]

\* BuildTriangleGeometry, and the rest of Initialize after it
BuildTriangleGeometry(a, fail) ==
    IF ThrowIfFailed(fail, "vertexBlob")
    THEN Ended([a EXCEPT !.mTriangleGeo = Ptr(TriangleGeo(a, 0))], "threw")
    ELSE IF ThrowIfFailed(fail, "indexBlob")
    THEN Ended([a EXCEPT !.mTriangleGeo = Ptr(TriangleGeo(a, 1))], "threw")
    ELSE BuildPSO([a EXCEPT !.mTriangleGeo = Ptr(TriangleGeo(a, 3))], fail)

\* BuildShadersAndInputLayout, and the rest of Initialize after it
BuildShadersAndInputLayout(a, fail) ==
    BuildTriangleGeometry([a EXCEPT !.mvsByteCode = Created, !.mpsByteCode = Created,
                                    !.mInputLayout = <<"POSITION", "COLOR">>], fail)

\* BuildRootSignature, and the rest of Initialize after it
BuildRootSignature(a, fail) ==
    IF ThrowIfFailed(fail, "rootSigSerialize") \/ ThrowIfFailed(fail, "rootSig")
    THEN Ended(a, "threw")
    ELSE BuildShadersAndInputLayout([a EXCEPT !.mRootSignature = Created], fail)

\* the descriptor heap, the constant buffer and its view, and the rest of
\* Initialize after them
CreateCbvHeap(a, fail) ==
    IF fail = "heap"
    THEN Ended(a, "false")
    ELSE BuildRootSignature([a EXCEPT !.mCbvHeap = Created,
                                      !.mObjectCB = Ptr([slot0 |-> Unwritten])], fail)

\* DX12RenderAdapter::Initialize(hwnd, width, height) when the creation step
\* `fail` fails ("none": every step succeeds): the adapter afterwards and how
\* the call ended ("true", "false", or "threw" for a DxException).
AdapterInitialize(a, width, height, fail) ==
    CreateCbvHeap([a EXCEPT !.mClientWidth = width, !.mClientHeight = height], fail)

\* a Resize that also rebuilt the mesh for the new dimensions
AdapterResize_Rebuilds(a, width, height) ==
    [a EXCEPT !.mClientWidth = width, !.mClientHeight = height,
              !.mTriangleGeo = IF @ = Null THEN Null
                               ELSE Ptr(TriangleGeo([a EXCEPT !.mClientWidth = width,
                                                              !.mClientHeight = height], 3))]

\* DX12RenderAdapter::Resize
AdapterResize(a, width, height) ==
    [a EXCEPT !.mClientWidth = width, !.mClientHeight = height]

\* DX12RenderAdapter::DrawTriangle: the transposed matrix goes to element 0
\* of the constant buffer; the color argument is not used.
DrawTriangle(a, worldViewProj, color) ==
    LET objConstants == [WorldViewProj |-> XMMatrixTranspose(worldViewProj)]
    IN  [a EXCEPT !.mObjectCB = Ptr([slot0 |-> objConstants.WorldViewProj])]

\* mutant: Cleanup releases every resource the adapter holds and keeps the pointers
Cleanup_Releases(st) ==
    [st EXCEPT !.cleanups = @ + 1,
               !.released = [r \in Resources |->
                               IF st.adapter[r] # Null THEN @[r] + 1 ELSE @[r]]]

\* DX12RenderAdapter::Cleanup: logs the call, releases nothing.  st is the
\* adapter together with the release counts of its resources and the number
\* of Cleanup calls made on it.
Cleanup(st) == [st EXCEPT !.cleanups = @ + 1]

\* ~DX12RenderAdapter: every member that holds a resource releases it once
AdapterDestroy(st) ==
    [adapter |-> Null,
     released |-> [r \in Resources |->
                     IF st.adapter[r] # Null THEN st.released[r] + 1 ELSE st.released[r]],
     cleanups |-> st.cleanups]

\* ------------------------------------------------------------ InputManager
\* bool mKeyState[256] is kept as the set of the slots that hold true.
NoRead == -1

\* InputManager::InputManager
InputNew ==
    [mKeyState |-> {k \in 0..(KeySlots - 1) : FALSE},
     mMouseX |-> 0, mMouseY |-> 0, mLeftButton |-> FALSE, mRightButton |-> FALSE]

\* GetAsyncKeyState(key) & 0x8000, when the keys and buttons in `held` are down
GetAsyncKeyState(held, key) == key \in held

\* ScreenToClient: screen point p relative to the client origin of the window
ScreenToClient(origin, p) == <<p[1] - origin[1], p[2] - origin[2]>>

\* InputManager::Update
InputUpdate(inp, held, origin, cursor) ==
    LET p == ScreenToClient(origin, cursor)
    IN  [mKeyState |-> {key \in 0..(KeySlots - 1) : GetAsyncKeyState(held, key)},
         mMouseX |-> p[1], mMouseY |-> p[2],
         mLeftButton |-> GetAsyncKeyState(held, VK_LBUTTON),
         mRightButton |-> GetAsyncKeyState(held, VK_RBUTTON)]

\* mutant: the upper bound of the range check is off by one
IsKeyDown_OffByOne(inp, vkCode) ==
    IF vkCode < 0 \/ vkCode > KeySlots
    THEN [value |-> FALSE, read |-> NoRead]
    ELSE [value |-> vkCode \in inp.mKeyState, read |-> vkCode]

\* InputManager::IsKeyDown: the value returned, and the index of mKeyState
\* the call read (NoRead when it read none)
IsKeyDown(inp, vkCode) ==
    IF vkCode < 0 \/ vkCode >= KeySlots
    THEN [value |-> FALSE, read |-> NoRead]
    ELSE [value |-> vkCode \in inp.mKeyState, read |-> vkCode]

\* mutant: the two buttons are swapped
IsMouseLeftDown_Swapped(inp) == inp.mRightButton
IsMouseLeftDown(inp) == inp.mLeftButton
IsMouseRightDown(inp) == inp.mRightButton

\* --------------------------------------------------------------- GameState
\* the per-frame steps of GameplayState::Update: 0.01f and 0.02f
ScaleStep == Rat(1, 100)
AngleStep == Rat(2, 100)

\* GameplayState::Enter
GameplayEnter(s) == [s EXCEPT !.mPosition = <<Zero, Zero>>, !.mScale = One, !.mAngle = Zero]

\* GameplayState::GameplayState followed by Enter (the fields hold no value
\* before Enter assigns them)
GameplayNew == GameplayEnter([kind |-> "Gameplay", mPosition |-> <<Zero, Zero>>,
                              mScale |-> Zero, mAngle |-> Zero])

MenuNew == [kind |-> "Menu"]

\* mutant: the step is not scaled by the frame time
MoveStep_PerFrame(deltaTime) == RInt(moveSpeed)

\* moveSpeed * deltaTime
MoveStep(deltaTime) == RMul(RInt(moveSpeed), deltaTime)

Up(inp) == IsKeyDown(inp, KeyW).value \/ IsKeyDown(inp, VK_UP).value
\* mutant: VK_DOWN is not looked at
Down_OnlyS(inp) == IsKeyDown(inp, KeyS).value
Down(inp) == IsKeyDown(inp, KeyS).value \/ IsKeyDown(inp, VK_DOWN).value
Left(inp) == IsKeyDown(inp, KeyA).value \/ IsKeyDown(inp, VK_LEFT).value
Right(inp) == IsKeyDown(inp, KeyD).value \/ IsKeyDown(inp, VK_RIGHT).value

\* the four position lines of GameplayState::Update: -= if `neg`, then += if `pos`
Moved(v, neg, pos, deltaTime) ==
    RAdd(RSub(v, IF neg THEN MoveStep(deltaTime) ELSE Zero),
         IF pos THEN MoveStep(deltaTime) ELSE Zero)

\* GameplayState::Update
GameplayUpdate(s, inp, deltaTime) ==
    [s EXCEPT !.mPosition = <<Moved(@[1], Left(inp), Right(inp), deltaTime),
                              Moved(@[2], Up(inp), Down(inp), deltaTime)>>,
              !.mScale = IF IsMouseLeftDown(inp) THEN RAdd(@, ScaleStep) ELSE @,
              !.mAngle = IF IsMouseRightDown(inp) THEN RAdd(@, AngleStep) ELSE @]

\* the projection GameplayState::Draw composes with
GameplayProj ==
    XMMatrixOrthographicOffCenterLH(Zero, RInt(GameplayProjWidth), RInt(GameplayProjHeight),
                                    Zero, Zero, One)

\* world * view * proj for the pose of s under projection proj
WorldViewProj(s, proj) ==
    LET world == XMMatrixMultiply(
                    XMMatrixMultiply(
                        XMMatrixTranslation(s.mPosition[1], s.mPosition[2], Zero),
                        XMMatrixRotationZ(s.mAngle)),
                    XMMatrixScaling(s.mScale, s.mScale, One))
        view == XMMatrixIdentity
    IN  XMMatrixMultiply(XMMatrixMultiply(world, view), proj)

GameplayColor == <<1, 0, 0, 1>>

\* GameplayState::Draw: the matrix it hands to DrawTriangle
GameplayWvp(s) == WorldViewProj(s, GameplayProj)

\* GameState::Update, dispatched on the state's type
StateUpdate(s, inp, deltaTime) ==
    IF s.kind = "Gameplay" THEN GameplayUpdate(s, inp, deltaTime) ELSE s

\* GameState::Draw, dispatched on the state's type: the DrawTriangle calls
\* it makes on the adapter (Gameplay makes one, Menu none)
StateDraw(s) ==
    IF s.kind = "Gameplay"
    THEN <<[M |-> GameplayWvp(s), color |-> GameplayColor]>>
    ELSE <<>>

\* the adapter after the DrawTriangle calls in `calls`
Submit(a, calls) ==
    IF calls = <<>> THEN a ELSE DrawTriangle(a, calls[1].M, calls[1].color)

\* ------------------------------------------------------------ environment
\* client-area sizes the window harness reports
WindowDims == {<<800, 600>>, <<1024, 768>>}

\* the keys and buttons the user presses
PhysKeys == {VK_LBUTTON, VK_RBUTTON, VK_LEFT, VK_UP, VK_RIGHT, VK_DOWN, KeyA, KeyD, KeyS, KeyW}

\* what can be down at one poll: nothing, one key or button, the S key or
\* the left button together with one other, or VK_DOWN together with an "up" key
HeldSets == {{}} \cup {{k} : k \in PhysKeys}
            \cup {{d, k} : d \in {KeyS, VK_LBUTTON}, k \in PhysKeys}
            \cup {{VK_DOWN, k} : k \in {KeyW, VK_UP}}

\* GameTimer::DeltaTime of a frame, in seconds
DeltaTimes == {Rat(1, 60), Rat(1, 30)}

\* the cursor (screen coordinates) and the client origin of the active window
CursorPoints == {<<420, 340>>}
WindowOrigin == <<100, 100>>

\* ------------------------------------------------------------------ BoxApp
\* the steps of BoxApp::Initialize that can fail
AppFailures == {"d3dApp", "cmdReset", "cmdClose"} \cup AdapterFailures

\* the steps of BoxApp::Draw that can fail, before and after the state's Draw
DrawFailuresBefore == {"allocReset", "listReset"}
DrawFailuresAfter == {"listClose", "present"}

\* mutant: the result of the adapter's Initialize is not looked at
AdapterInitFailed_Ignored(result) == FALSE

\* if (!mRenderAdapter->Initialize(...)): BoxApp::Initialize gives up
AdapterInitFailed(result) == result = "false"

\* mutant: Initialize never sets mCurrentState
InitialState_Unset == Null

\* mCurrentState = std::make_unique<GameplayState>(); mCurrentState->Enter()
InitialState == Ptr(GameplayNew)

\* BoxApp before Initialize: no adapter, no state, mView and mProj unset
BoxAppNew == [adapter |-> Null, state |-> Null, view |-> Unwritten, proj |-> Unwritten,
              adapterInit |-> "none", appInit |-> "none"]

\* BoxApp::Initialize from the creation of the adapter on, r being what the
\* adapter's Initialize did
BoxAppInitializeAdapter(dims, fail, r) ==
    IF r.result = "threw"
    THEN [BoxAppNew EXCEPT !.adapter = Ptr(r.adapter), !.adapterInit = r.result,
                           !.appInit = "threw"]
    ELSE IF AdapterInitFailed(r.result)
    THEN [BoxAppNew EXCEPT !.adapter = Ptr(r.adapter), !.adapterInit = r.result,
                           !.appInit = "false"]
    ELSE IF ThrowIfFailed(fail, "cmdClose")
    THEN [BoxAppNew EXCEPT !.adapter = Ptr(r.adapter), !.adapterInit = r.result,
                           !.appInit = "threw"]
    ELSE [adapter |-> Ptr(r.adapter),
          state |-> InitialState,
          view |-> XMMatrixIdentity,
          proj |-> XMMatrixOrthographicOffCenterLH(Zero, RInt(dims[1]), RInt(dims[2]),
                                                   Zero, Zero, One),
          adapterInit |-> r.result,
          appInit |-> "true"]

\* BoxApp::Initialize for a dims[1] x dims[2] window when step `fail` fails
BoxAppInitialize(dims, fail) ==
    IF fail = "d3dApp" THEN [BoxAppNew EXCEPT !.appInit = "false"]
    ELSE IF ThrowIfFailed(fail, "cmdReset") THEN [BoxAppNew EXCEPT !.appInit = "threw"]
    ELSE BoxAppInitializeAdapter(dims, fail,
                                 AdapterInitialize(AdapterNew, dims[1], dims[2], fail))

\* mutant: the destructor does not call Cleanup
BoxAppDestroy_NoCleanup(adapter, rel, n) ==
    IF adapter # Null
    THEN AdapterDestroy([adapter |-> Deref(adapter), released |-> rel, cleanups |-> n])
    ELSE [adapter |-> Null, released |-> rel, cleanups |-> n]

\* ~BoxApp: Cleanup if there is an adapter, then the members are destroyed
BoxAppDestroy(adapter, rel, n) ==
    IF adapter # Null
    THEN AdapterDestroy(Cleanup([adapter |-> Deref(adapter), released |-> rel,
                                 cleanups |-> n]))
    ELSE [adapter |-> Null, released |-> rel, cleanups |-> n]

\* ----------------------------------------------------------------- actions
Init ==
    /\ pc = "main"
    /\ client = <<0, 0>>
    /\ mRenderAdapter = Null
    /\ mCurrentState = Null
    /\ mView = Unwritten
    /\ mProj = Unwritten
    /\ input = InputNew
    /\ released = [r \in Resources |-> 0]
    /\ initFail = "none"
    /\ adapterInit = "none"
    /\ appInit = "none"
    /\ lastOp = "none"
    /\ lastArg = <<>>
    /\ frames = 0
    /\ draws = 0
    /\ cleanups = 0
    /\ polled = {}
    /\ onlyW = TRUE

\* WinMain: BoxApp theApp(hInstance), for a window of size dims
Construct(dims) ==
    /\ pc = "main"
    /\ pc' = "constructed"
    /\ client' = dims
    /\ lastOp' = "Construct"
    /\ lastArg' = dims
    /\ UNCHANGED <<mRenderAdapter, mCurrentState, mView, mProj, input, released, initFail,
                   adapterInit, appInit, frames, draws, cleanups, polled, onlyW>>

\* WinMain: theApp.Initialize(), with step `fail` failing ("none": no step)
Initialize(fail) ==
    /\ pc = "constructed"
    /\ mRenderAdapter' = BoxAppInitialize(client, fail).adapter
    /\ mCurrentState' = BoxAppInitialize(client, fail).state
    /\ mView' = BoxAppInitialize(client, fail).view
    /\ mProj' = BoxAppInitialize(client, fail).proj
    /\ adapterInit' = BoxAppInitialize(client, fail).adapterInit
    /\ appInit' = BoxAppInitialize(client, fail).appInit
    /\ pc' = IF appInit' = "true" THEN "running" ELSE "failed"
    /\ initFail' = fail
    /\ lastOp' = "Initialize"
    /\ lastArg' = fail
    /\ UNCHANGED <<client, input, released, frames, draws, cleanups, polled, onlyW>>

\* BoxApp::OnResize, the harness having stored the new client size
OnResize(dims) ==
    /\ pc = "running"
    /\ client' = dims
    /\ mProj' = XMMatrixOrthographicOffCenterLH(Zero, RInt(dims[1]), RInt(dims[2]),
                                                Zero, Zero, One)
    /\ mRenderAdapter' = IF mRenderAdapter # Null
                         THEN Ptr(AdapterResize(Deref(mRenderAdapter), dims[1], dims[2]))
                         ELSE mRenderAdapter
    /\ lastOp' = "OnResize"
    /\ lastArg' = dims
    /\ UNCHANGED <<pc, mCurrentState, mView, input, released, initFail, adapterInit, appInit,
                   frames, draws, cleanups, polled, onlyW>>

\* BoxApp::Update: poll the input, then update the current state
Update(held, cursor, deltaTime, maxFrames) ==
    /\ pc = "running"
    /\ frames < maxFrames
    /\ input' = InputUpdate(input, held, WindowOrigin, cursor)
    /\ mCurrentState' = IF mCurrentState # Null
                        THEN Ptr(StateUpdate(Deref(mCurrentState), input', deltaTime))
                        ELSE mCurrentState
    /\ pc' = "frame"
    /\ frames' = frames + 1
    /\ polled' = held
    /\ onlyW' = (onlyW /\ held = {KeyW} /\ deltaTime = Rat(1, 60))
    /\ lastOp' = "Update"
    /\ lastArg' = [held |-> held, deltaTime |-> deltaTime]
    /\ UNCHANGED <<client, mRenderAdapter, mView, mProj, released, initFail, adapterInit,
                   appInit, draws, cleanups>>

\* whether the current state's Draw, if it runs, calls DrawTriangle
StateDraws == mCurrentState # Null /\ Deref(mCurrentState).kind = "Gameplay"

\* if (mCurrentState) mCurrentState->Draw(mRenderAdapter.get()): the
\* DrawTriangle calls of this frame
FrameDraws == IF mCurrentState # Null THEN StateDraw(Deref(mCurrentState)) ELSE <<>>

\* BoxApp::Draw running to its end
Draw ==
    /\ pc = "frame"
    /\ \E calls \in {FrameDraws} :
          /\ mRenderAdapter' = IF calls # <<>>
                               THEN Ptr(Submit(Deref(mRenderAdapter), calls))
                               ELSE mRenderAdapter
          /\ draws' = draws + Len(calls)
          /\ lastArg' = IF calls # <<>> THEN calls[1] ELSE <<>>
    /\ pc' = "running"
    /\ lastOp' = "Draw"
    /\ UNCHANGED <<client, mCurrentState, mView, mProj, input, released, initFail,
                   adapterInit, appInit, frames, cleanups, polled, onlyW>>

\* BoxApp::Draw ending in a DxException at step `fail`: before the state's
\* Draw, or after it
DrawThrows ==
    /\ pc = "frame"
    /\ \/ /\ \E fail \in DrawFailuresBefore : lastArg' = (fail \in DrawFailuresAfter)
          /\ UNCHANGED <<mRenderAdapter, draws>>
       \/ \E calls \in {FrameDraws} :
             /\ \E fail \in DrawFailuresAfter : lastArg' = (fail \in DrawFailuresAfter)
             /\ mRenderAdapter' = IF calls # <<>>
                                  THEN Ptr(Submit(Deref(mRenderAdapter), calls))
                                  ELSE mRenderAdapter
             /\ draws' = draws + Len(calls)
    /\ pc' = "failed"
    /\ lastOp' = "DrawThrows"
    /\ UNCHANGED <<client, mCurrentState, mView, mProj, input, released, initFail,
                   adapterInit, appInit, frames, cleanups, polled, onlyW>>

\* WinMain returns (Initialize failed, the window was closed, or a
\* DxException was caught): theApp is destroyed
Destroy ==
    /\ pc \in {"running", "failed"}
    /\ mRenderAdapter' = BoxAppDestroy(mRenderAdapter, released, cleanups).adapter
    /\ released' = BoxAppDestroy(mRenderAdapter, released, cleanups).released
    /\ cleanups' = BoxAppDestroy(mRenderAdapter, released, cleanups).cleanups
    /\ mCurrentState' = Null
    /\ pc' = "exited"
    /\ lastOp' = "Destroy"
    /\ lastArg' = <<>>
    /\ UNCHANGED <<client, mView, mProj, input, initFail, adapterInit, appInit, frames,
                   draws, polled, onlyW>>

Next ==
    \/ \E dims \in WindowDims : Construct(dims)
    \/ \E fail \in AppFailures \cup {"none"} : Initialize(fail)
    \/ \E dims \in WindowDims : OnResize(dims)
    \/ \E held \in HeldSets, cursor \in CursorPoints, dt \in DeltaTimes :
          Update(held, cursor, dt, MaxFrames)
    \/ Draw
    \/ DrawThrows
    \/ Destroy

Spec == Init /\ [][Next]_vars

\* ------------------------------------------------- the W-key scenario
\* The application after a successful start-up in an 800 x 600 window, then
\* frames of 1/60 s in which the W key is held, alone or together with D.
ScenarioDims == <<GameplayProjWidth, GameplayProjHeight>>
ScenarioHeld == {{KeyW}, {KeyW, KeyD}}

InitRunning ==
    /\ pc = "running"
    /\ client = ScenarioDims
    /\ mRenderAdapter = BoxAppInitialize(ScenarioDims, "none").adapter
    /\ mCurrentState = BoxAppInitialize(ScenarioDims, "none").state
    /\ mView = BoxAppInitialize(ScenarioDims, "none").view
    /\ mProj = BoxAppInitialize(ScenarioDims, "none").proj
    /\ input = InputNew
    /\ released = [r \in Resources |-> 0]
    /\ initFail = "none"
    /\ adapterInit = BoxAppInitialize(ScenarioDims, "none").adapterInit
    /\ appInit = BoxAppInitialize(ScenarioDims, "none").appInit
    /\ lastOp = "Initialize"
    /\ lastArg = "none"
    /\ frames = 0
    /\ draws = 0
    /\ cleanups = 0
    /\ polled = {}
    /\ onlyW = TRUE

NextHoldW ==
    \/ \E held \in ScenarioHeld, cursor \in CursorPoints :
          Update(held, cursor, Rat(1, 60), MaxScenarioTicks)
    \/ Draw

SpecHoldW == InitRunning /\ [][NextHoldW]_vars

\* ------------------------------------------- the adapter under any client
\* A DX12RenderAdapter used through IRenderAdapter by a client that calls
\* Initialize once and DrawTriangle only after Initialize returned true.
RampRow(k, i) == <<RInt(k + 4 * i), RInt(k + 4 * i + 1), RInt(k + 4 * i + 2),
                   RInt(k + 4 * i + 3)>>
Ramp(k) == Mat(RampRow(k, 0), RampRow(k, 1), RampRow(k, 2), RampRow(k, 3))

TestMatrices ==
    {XMMatrixIdentity, Ramp(0), Ramp(-7),
     GameplayWvp([kind |-> "Gameplay", mPosition |-> <<Rat(10, 3), RInt(-20)>>,
                  mScale |-> Rat(101, 100), mAngle |-> Rat(2, 100)])}

TestColors == {<<1, 0, 0, 1>>, <<0, 1, 0, 1>>}

InitAdapter ==
    /\ pc = "client"
    /\ client = <<0, 0>>
    /\ mRenderAdapter = Ptr(AdapterNew)
    /\ mCurrentState = Null
    /\ mView = Unwritten
    /\ mProj = Unwritten
    /\ input = InputNew
    /\ released = [r \in Resources |-> 0]
    /\ initFail = "none"
    /\ adapterInit = "none"
    /\ appInit = "none"
    /\ lastOp = "none"
    /\ lastArg = <<>>
    /\ frames = 0
    /\ draws = 0
    /\ cleanups = 0
    /\ polled = {}
    /\ onlyW = TRUE

CallInitialize(dims, fail) ==
    /\ pc = "client"
    /\ adapterInit = "none"
    /\ mRenderAdapter' =
          Ptr(AdapterInitialize(Deref(mRenderAdapter), dims[1], dims[2], fail).adapter)
    /\ adapterInit' = AdapterInitialize(Deref(mRenderAdapter), dims[1], dims[2], fail).result
    /\ initFail' = fail
    /\ lastOp' = "Initialize"
    /\ lastArg' = dims
    /\ UNCHANGED <<pc, client, mCurrentState, mView, mProj, input, released, appInit,
                   frames, draws, cleanups, polled, onlyW>>

CallResize(dims) ==
    /\ pc = "client"
    /\ mRenderAdapter' = Ptr(AdapterResize(Deref(mRenderAdapter), dims[1], dims[2]))
    /\ lastOp' = "Resize"
    /\ lastArg' = dims
    /\ UNCHANGED <<pc, client, mCurrentState, mView, mProj, input, released, initFail,
                   adapterInit, appInit, frames, draws, cleanups, polled, onlyW>>

CallDrawTriangle(M, color) ==
    /\ pc = "client"
    /\ adapterInit = "true"
    /\ draws < MaxAdapterCalls
    /\ mRenderAdapter' = Ptr(DrawTriangle(Deref(mRenderAdapter), M, color))
    /\ draws' = draws + 1
    /\ lastOp' = "DrawTriangle"
    /\ lastArg' = [M |-> M, color |-> color]
    /\ UNCHANGED <<pc, client, mCurrentState, mView, mProj, input, released, initFail,
                   adapterInit, appInit, frames, cleanups, polled, onlyW>>

CallCleanup ==
    /\ pc = "client"
    /\ cleanups < MaxAdapterCalls
    /\ mRenderAdapter' = Ptr(Cleanup([adapter |-> Deref(mRenderAdapter),
                                      released |-> released,
                                      cleanups |-> cleanups]).adapter)
    /\ released' = Cleanup([adapter |-> Deref(mRenderAdapter), released |-> released,
                            cleanups |-> cleanups]).released
    /\ cleanups' = Cleanup([adapter |-> Deref(mRenderAdapter), released |-> released,
                            cleanups |-> cleanups]).cleanups
    /\ lastOp' = "Cleanup"
    /\ lastArg' = <<>>
    /\ UNCHANGED <<pc, client, mCurrentState, mView, mProj, input, initFail, adapterInit,
                   appInit, frames, draws, polled, onlyW>>

\* the owner is destroyed as BoxApp is: Cleanup, then the adapter's destructor
OwnerDestroy ==
    /\ pc = "client"
    /\ mRenderAdapter' = BoxAppDestroy(mRenderAdapter, released, cleanups).adapter
    /\ released' = BoxAppDestroy(mRenderAdapter, released, cleanups).released
    /\ cleanups' = BoxAppDestroy(mRenderAdapter, released, cleanups).cleanups
    /\ pc' = "exited"
    /\ lastOp' = "Destroy"
    /\ lastArg' = <<>>
    /\ UNCHANGED <<client, mCurrentState, mView, mProj, input, initFail, adapterInit,
                   appInit, frames, draws, polled, onlyW>>

NextAdapter ==
    \/ \E dims \in WindowDims, fail \in AdapterFailures \cup {"none"} :
          CallInitialize(dims, fail)
    \/ \E dims \in WindowDims : CallResize(dims)
    \/ \E M \in TestMatrices, color \in TestColors : CallDrawTriangle(M, color)
    \/ CallCleanup
    \/ OwnerDestroy

SpecAdapter == InitAdapter /\ [][NextAdapter]_vars

\* ------------------------------------------------------------------ claims
Ortho(dims) ==
    XMMatrixOrthographicOffCenterLH(Zero, RInt(dims[1]), RInt(dims[2]), Zero, Zero, One)
PosX == Deref(mCurrentState).mPosition[1]
PosY == Deref(mCurrentState).mPosition[2]
Scale == Deref(mCurrentState).mScale
Angle == Deref(mCurrentState).mAngle
Slot0 == Deref(Deref(mRenderAdapter).mObjectCB).slot0

\* C1 as stated: whenever a resource-creation step of the adapter's
\* Initialize fails, Initialize returns false, BoxApp::Initialize does not
\* succeed and no frame is run.
C1_Original ==
    initFail \in AdapterFailures =>
        adapterInit = "false" /\ appInit # "true" /\ frames = 0 /\ draws = 0

\* C1, amended: a failure to create the descriptor heap makes Initialize
\* return false; a failure of the root signature, the mesh blobs or the
\* pipeline state makes it throw DxException.  Either way BoxApp::Initialize
\* ends the same way as the adapter's, start-up is aborted, no state is
\* entered and no Update or Draw is ever run.
C1_InitFailureAbortsStartup ==
    initFail \in AdapterFailures =>
        /\ adapterInit = (IF initFail = "heap" THEN "false" ELSE "threw")
        /\ appInit = adapterInit
        /\ pc \in {"failed", "exited"}
        /\ mCurrentState = Null
        /\ frames = 0
        /\ draws = 0

C1_Witness ==
    pc = "exited" /\ initFail = "pso" /\ adapterInit = "threw" /\ appInit = "threw"

\* C2 as stated: from the construction of the application to its
\* destruction a GameState (Gameplay or Menu) is current.
C2_Original ==
    pc \in {"constructed", "running", "frame", "failed"} =>
        mCurrentState # Null /\ Deref(mCurrentState).kind \in {"Gameplay", "Menu"}

\* C2, amended: from the successful return of BoxApp::Initialize to the
\* destruction of the application (through every Update, Draw and resize)
\* one GameState is current and it is Gameplay; before that, and after an
\* Initialize that failed, no state is current.
C2_OneStateOnceInitialized ==
    /\ (appInit = "true" /\ pc # "exited") =>
          (mCurrentState # Null /\ Deref(mCurrentState).kind = "Gameplay")
    /\ appInit # "true" => mCurrentState = Null

C2_Witness ==
    pc = "running" /\ lastOp = "OnResize" /\ frames = 2 /\ draws = 2
    /\ mCurrentState # Null

\* C3: DrawTriangle runs only after an adapter Initialize that returned true,
\* with every adapter resource in place; and once the process has exited,
\* Cleanup has been called on every adapter that was created.
C3_DrawAfterInitCleanupBeforeExit ==
    /\ draws > 0 => adapterInit = "true"
    /\ lastOp = "Draw" => \A r \in Resources : Deref(mRenderAdapter)[r] # Null
    /\ (pc = "exited" /\ adapterInit # "none") => cleanups >= 1

C3_Witness ==
    pc = "exited" /\ draws > 0 /\ adapterInit = "true" /\ cleanups = 1

\* C4 as stated: the matrix Gameplay's Draw hands to the adapter is composed
\* with the orthographic projection of the window's current client size.
C4_ProjectionMatchesClient ==
    (lastOp = "Draw" /\ StateDraws) =>
        lastArg.M = WorldViewProj(Deref(mCurrentState), Ortho(client))

\* C5 as stated: every Update with a "down" key (S or VK_DOWN) held adds
\* moveSpeed * deltaTime to position.y, whatever else is held.
C5_Original ==
    [][(/\ lastOp' = "Update"
        /\ mCurrentState # Null
        /\ mCurrentState' # Null
        /\ lastArg'.held \cap {KeyS, VK_DOWN} # {})
       => PosY' = RAdd(PosY, RMul(RInt(moveSpeed), lastArg'.deltaTime))]_vars

\* C5, amended: every Update with a "down" key held and no "up" key (W,
\* VK_UP) held adds moveSpeed * deltaTime to position.y, whatever other keys
\* or buttons are held; with an "up" key held as well, position.y is
\* unchanged.
C5_DownAddsUnlessUpHeld ==
    [][(/\ lastOp' = "Update"
        /\ mCurrentState # Null
        /\ mCurrentState' # Null
        /\ lastArg'.held \cap {KeyS, VK_DOWN} # {})
       => PosY' = IF lastArg'.held \cap {KeyW, VK_UP} = {}
                  THEN RAdd(PosY, RMul(RInt(moveSpeed), lastArg'.deltaTime))
                  ELSE PosY]_vars

\* two ticks of 1/30 s with a down key held: 2 * 200 / 30
C5_Witness ==
    /\ lastOp = "Update"
    /\ frames = 2
    /\ lastArg.held = {KeyS, VK_LBUTTON}
    /\ lastArg.deltaTime = Rat(1, 30)
    /\ PosY = Rat(40, 3)

\* C6: after 60 Updates of 1/60 s from Enter, in each of which only W was
\* held, position is (0, -200), scale 1 and angle 0.
C6_HoldWOneSecond ==
    (frames = 60 /\ onlyW) =>
        /\ PosX = Zero
        /\ PosY = RInt(-200)
        /\ Scale = One
        /\ Angle = Zero

C6_Witness == frames = 60 /\ onlyW /\ lastOp = "Update"

\* C7: with no Enter in between, scale never decreases; an Update with the
\* left button held adds 0.01 to it whatever deltaTime is, and an Update with
\* the left button released leaves it unchanged.
C7_ScaleMonotone ==
    [][(mCurrentState # Null /\ mCurrentState' # Null) =>
          /\ RLeq(Scale, Scale')
          /\ lastOp' = "Update" =>
                Scale' = IF VK_LBUTTON \in lastArg'.held
                         THEN RAdd(Scale, Rat(1, 100))
                         ELSE Scale]_vars

C7_Witness ==
    /\ lastOp = "Update"
    /\ frames = 2
    /\ lastArg.held = {VK_LBUTTON, VK_RBUTTON}
    /\ Scale = Rat(102, 100)

\* C8: a Cleanup call that follows another leaves the adapter and the release
\* counts of its resources as they were, and no resource is ever released
\* more than once.
C8_CleanupIdempotent ==
    /\ [][(lastOp' = "Cleanup" /\ cleanups >= 1) =>
             (mRenderAdapter' = mRenderAdapter /\ released' = released)]_vars
    /\ [](\A r \in Resources : released[r] <= 1)

C8_Witness ==
    /\ pc = "exited"
    /\ adapterInit = "true"
    /\ cleanups >= 3
    /\ \A r \in Resources : released[r] = 1

\* C9: IsKeyDown returns false for every code outside 0..255 without reading
\* mKeyState, and for a code inside the range reads that slot and returns
\* what the most recent Update polled (false before the first Update).
ProbeCodes == {-300, -1, 0, 255, 256, 257, 1000} \cup PhysKeys

C9_IsKeyDownRange ==
    \A vk \in ProbeCodes :
        IF vk < 0 \/ vk >= 256
        THEN IsKeyDown(input, vk) = [value |-> FALSE, read |-> NoRead]
        ELSE IsKeyDown(input, vk) = [value |-> vk \in polled, read |-> vk]

C9_Witness == frames = 2 /\ KeyW \in polled /\ lastOp = "Draw"

\* C10: after DrawTriangle(M, color), entry (i, j) of the matrix in element 0
\* of the constant buffer is entry (j, i) of M.
C10_SlotIsTranspose ==
    lastOp = "DrawTriangle" =>
        \A i \in Idx, j \in Idx : At(Slot0, i, j) = At(lastArg.M, j, i)

C10_Witness ==
    /\ lastOp = "DrawTriangle"
    /\ draws >= 2
    /\ lastArg.M = Ramp(0)
    /\ lastArg.color = <<0, 1, 0, 1>>

\* the mesh the adapter holds
Geo == Deref(Deref(mRenderAdapter).mTriangleGeo)

\* the adapter members other than the stored width and height
OtherMembers == DOMAIN AdapterNew \ {"mClientWidth", "mClientHeight"}

\* C11: after an Initialize(w, h) that returned true the mesh has the vertex
\* positions (w/2, h/2 - 100), (w/2 - 100, h/2 + 100), (w/2 + 100, h/2 + 100)
\* and 3 indices; and a Resize(w2, h2) stores w2 and h2 as the adapter's width
\* and height and leaves the mesh and every other member as they were.
C11_MeshFixedByInitialize ==
    /\ [](lastOp = "Initialize" /\ adapterInit = "true" =>
             /\ Geo.VertexBufferCPU =
                   << <<Rat(lastArg[1], 2), RSub(Rat(lastArg[2], 2), RInt(100))>>,
                      <<RSub(Rat(lastArg[1], 2), RInt(100)),
                        RAdd(Rat(lastArg[2], 2), RInt(100))>>,
                      <<RAdd(Rat(lastArg[1], 2), RInt(100)),
                        RAdd(Rat(lastArg[2], 2), RInt(100))>> >>
             /\ Geo.VertexBufferGPU = Geo.VertexBufferCPU
             /\ Len(Geo.IndexBufferCPU) = 3
             /\ Len(Geo.IndexBufferGPU) = 3
             /\ Deref(Geo.DrawArgs).IndexCount = 3)
    /\ [][lastOp' = "Resize" =>
             /\ Deref(mRenderAdapter').mClientWidth = lastArg'[1]
             /\ Deref(mRenderAdapter').mClientHeight = lastArg'[2]
             /\ \A m \in OtherMembers :
                   Deref(mRenderAdapter')[m] = Deref(mRenderAdapter)[m]]_vars

\* initialized for 800 x 600, then resized to 1024 x 768: the mesh is still
\* the one around (400, 300)
C11_Witness ==
    /\ lastOp = "Resize"
    /\ adapterInit = "true"
    /\ lastArg = <<1024, 768>>
    /\ Deref(mRenderAdapter).mClientWidth = 1024
    /\ Deref(mRenderAdapter).mClientHeight = 768
    /\ Geo.VertexBufferGPU = << <<RInt(400), RInt(200)>>, <<RInt(300), RInt(400)>>,
                                <<RInt(500), RInt(400)>> >>
    /\ Deref(Geo.DrawArgs).IndexCount = 3

====
